---- MODULE Spec2Model ----
(***************************************************************************)
(* Model of dendrocat.utils._matcher (src/dendrocat/utils.py, 112-222):    *)
(* the merge engine that stacks two source catalogs and collapses          *)
(* near-duplicate detections.  One action is one pass through the body of  *)
(* the `while True` scan loop; the statements after the loop belong to the *)
(* pass that breaks.                                                       *)
(*                                                                         *)
(* Positions in the stack are 0-based as in the source; the TLA+ sequence  *)
(* holding the stack is 1-based, so the row at position i is stack[i+1].   *)
(*                                                                         *)
(* Coordinates are integers.  One coordinate step is 2.5e-6, written as    *)
(* Unit sub-steps so that every average the loop can compute is exact.     *)
(***************************************************************************)
EXTENDS Integers, Sequences, FiniteSets

VARIABLES stack, rejected, i, pc, input, last, crowded

vars == <<stack, rejected, i, pc, input, last, crowded>>

\* ---------------------------------------------------------------- bounds
\* The size of the small stacked table, the size of the largest one, and
\* the number of rows of a table that are varied.
MinRows == 2
MaxRows == 13
MaxFree == 3

\* ------------------------------------------------------------- constants
\* `for j in range(10)`: the number of candidates whose distance is computed.
WindowSize == 10

\* The sixteenth of a coordinate step.  At most MaxRows - WindowSize merges
\* fit in one run (every merge needs WindowSize candidates), so a sixteenth
\* of 2^(MaxRows - WindowSize) sub-steps keeps every average an integer.
Fine == 2 ^ (MaxRows - WindowSize)

\* One coordinate step, 2.5e-6.
Unit == 16 * Fine

\* threshold = 1e-5, i.e. four coordinate steps.
threshold == 4 * Unit

\* A masked table cell, and a cell holding the value v.
Masked == << >>
Cell(v) == << v >>

Abs(n) == IF n < 0 THEN 0 - n ELSE n

Max(a, b) == IF a < b THEN b ELSE a

Min(a, b) == IF a < b THEN a ELSE b

\* np.average of two numbers.
Average(a, b) == (a + b) \div 2

\* ------------------------------------------------------------ the inputs
\* What a varied row can be, as <<x, y, rejected>> with x and y in
\* coordinate steps: a row at the origin, a row three steps up (within the
\* threshold of the origin), a row two steps to the right (within the
\* threshold of the origin too, and farther in x than any background row),
\* and a rejected row at the origin.
Kinds == << <<0, 0, 0>>, <<0, 3, 0>>, <<2, 0, 0>>, <<0, 0, 1>> >>

\* The background row with label k: between one and two steps right of the
\* origin, each at an x of its own, and 8 steps in y from the next one.
FillerX(k) == Unit + (k + 1) * Fine
FillerY(k) == 8 * (k + 1) * Unit

\* Row k (0-based) of vstack([obj1.catalog, obj2.catalog]) with _index
\* added: obj1 has nA rows and the column flux_a, obj2 the column flux_b;
\* vstack masks the column a catalog lacks.  Ellipses are circles
\* (major = minor, angle 0) of diameter k + 1.
InputRow(k, nA, x, y, rej) ==
    [ _index         |-> k,
      _idx           |-> IF k < nA THEN k ELSE k - nA,
      _name          |-> k,
      x_cen          |-> x,
      y_cen          |-> y,
      major_fwhm     |-> k + 1,
      minor_fwhm     |-> k + 1,
      position_angle |-> 0,
      rejected       |-> rej,
      flux_a         |-> IF k < nA THEN Cell(k) ELSE Masked,
      flux_b         |-> IF k < nA THEN Masked ELSE Cell(k) ]

\* The stacked table of n rows, obj1 giving the first n \div 2: background
\* rows, except for the f rows from position a on, which are of the kinds
\* kd[1..f].
InputStack(n, a, f, kd) ==
    [ k1 \in 1..n |->
        LET k == k1 - 1
            v == k1 - a
        IN  IF v \in 1..f
            THEN InputRow(k, n \div 2, Kinds[kd[v]][1] * Unit,
                          Kinds[kd[v]][2] * Unit, Kinds[kd[v]][3])
            ELSE InputRow(k, n \div 2, FillerX(k), FillerY(k), 0) ]

\* The sizes of the stacked table: one too small for the window, and every
\* size from the smallest that gives each row WindowSize candidates.
RowCounts == { MinRows } \cup ((WindowSize + 1)..MaxRows)

\* np.where(stack['rejected'] == 1)[0]: positions, computed once.
RejectedPositions(s) == { k \in 0..(Len(s) - 1) : s[k + 1].rejected = 1 }

NoRow == [ _name |-> 0 - 1 ]

\* The square of the distance between the centres of two rows.
RowDist2(r1, r2) ==
    (r1.x_cen - r2.x_cen) * (r1.x_cen - r2.x_cen)
      + (r1.y_cen - r2.y_cen) * (r1.y_cen - r2.y_cen)

\* The names of the non-rejected rows of s that have another non-rejected
\* row of s within the threshold.
Crowded(s) ==
    { s[k]._name : k \in { j \in 1..Len(s) :
        /\ s[j].rejected = 0
        /\ \E h \in 1..Len(s) : /\ h # j
                                /\ s[h].rejected = 0
                                /\ RowDist2(s[j], s[h]) <= threshold * threshold } }

Init ==
    \E n \in RowCounts :
      \E f \in 0..Min(MaxFree, n) :
        \E a \in 0..(n - f) :
          \E kd \in [1..f -> 1..Len(Kinds)] :
              /\ stack = InputStack(n, a, f, kd)
              /\ input = stack
              /\ rejected = RejectedPositions(stack)
              /\ i = 0
              /\ pc = "scan"
              /\ last = [ kind |-> "start", teststar |-> NoRow, match |-> NoRow,
                          at |-> 0, match_at |-> 0 ]
              /\ crowded = Crowded(stack)

\* ------------------------------------------------------ the scan's steps
\* stack.remove_row(pos)
RemoveAt(s, pos) ==
    [ k \in 1..(Len(s) - 1) |-> IF k <= pos THEN s[k] ELSE s[k + 1] ]

\* DeltaP without the `rejected == 0` filter of line 159.
DeltaPKeepsRejected(s, teststar) ==
    { [ _idx   |-> s[k]._idx,
        _index |-> s[k]._index,
        x_cen  |-> Abs(s[k].x_cen - teststar.x_cen),
        y_cen  |-> Abs(s[k].y_cen - teststar.y_cen) ] :
      k \in { j \in 1..Len(s) : s[j]._index # teststar._index } }

\* Lines 159-162: the non-rejected rows other than the test row (matched by
\* _index), with x_cen and y_cen replaced by the absolute offsets from it.
DeltaP(s, teststar) ==
    { [ _idx   |-> s[k]._idx,
        _index |-> s[k]._index,
        x_cen  |-> Abs(s[k].x_cen - teststar.x_cen),
        y_cen  |-> Abs(s[k].y_cen - teststar.y_cen) ] :
      k \in { j \in 1..Len(s) : /\ s[j].rejected = 0
                                /\ s[j]._index # teststar._index } }

\* RaisesIndexError with a window one row short.
RaisesIndexErrorLate(dp) == Cardinality(dp) < WindowSize - 1

\* delta_p[j] for j in range(10) raises IndexError as soon as j reaches
\* len(delta_p).
RaisesIndexError(dp) == Cardinality(dp) < WindowSize

RECURSIVE KSubsets(_, _)
\* The subsets of S with k elements.
KSubsets(S, k) ==
    IF k = 0 THEN { {} }
    ELSE IF Cardinality(S) < k THEN {}
    ELSE LET x == CHOOSE y \in S : TRUE
         IN  { T \cup {x} : T \in KSubsets(S \ {x}, k - 1) }
               \cup KSubsets(S \ {x}, k)

\* delta_p.sort('x_cen') followed by delta_p[0..9]: the sets the first
\* WindowSize rows can be.  numpy's default sort leaves the order of equal
\* keys open, so rows that tie at the cut may be in or out.
Windows(dp) ==
    LET n    == Min(WindowSize, Cardinality(dp))
        cut  == CHOOSE c \in { d.x_cen : d \in dp } :
                  /\ Cardinality({ d \in dp : d.x_cen < c }) < n
                  /\ Cardinality({ d \in dp : d.x_cen <= c }) >= n
        sure == { d \in dp : d.x_cen < cut }
        ties == { d \in dp : d.x_cen = cut }
    IN  IF n = 0 THEN { {} }
        ELSE { sure \cup T : T \in KSubsets(ties, n - Cardinality(sure)) }

\* The square of np.sqrt(x_cen**2 + y_cen**2).
Dist2(d) == d.x_cen * d.x_cen + d.y_cen * d.y_cen

\* dist_col[j] <= threshold
WithinThreshold(d) == Dist2(d) <= threshold * threshold

\* Lines 171-175: some row of the window is within the threshold.
found_match(W) == \E d \in W : WithinThreshold(d)

\* Closest with dist set for every row of delta_p.
ClosestOfAll(W, dp) == { d \in dp : \A e \in dp : Dist2(d) <= Dist2(e) }

\* Lines 168-178 and 181: dist is set for the rows of the window only and
\* stays masked for the rest of delta_p; sort('dist') puts masked values
\* last, so delta_p[0] is a row of the window at the least distance.
Closest(W, dp) == { d \in W : \A e \in W : Dist2(d) <= Dist2(e) }

\* Lines 58-79 for circles: the smallest ellipse around two circles that
\* share a centre is the larger circle.
commonbeam(major1, minor1, pa1, major2, minor2, pa2) ==
    << Max(major1, major2), Max(minor1, minor2), 0 >>

\* The columns that hold masked cells in the modelled catalogs.
MaskableColumns == { "flux_a", "flux_b" }

IsMasked(row, c) == c \in MaskableColumns /\ row[c] = Masked

\* Lines 207-210: every masked cell of the row takes the match's cell.
FillMasked(row, match) ==
    [ c \in DOMAIN row |-> IF IsMasked(row, c) THEN match[c] ELSE row[c] ]

\* Lines 181-210.  teststar = stack[i] is a handle (table, position): once
\* the match is removed it reads the row that is at position pos THEN, which
\* is the test row only if the match sat after it.
Merged(s, pos, midx) ==
    LET mpos     == CHOOSE k \in 0..(Len(s) - 1) : s[k + 1]._index = midx
        match    == s[mpos + 1]
        s1       == RemoveAt(s, mpos)
        teststar == s1[pos + 1]
        cb       == commonbeam(match.major_fwhm, match.minor_fwhm,
                               match.position_angle, teststar.major_fwhm,
                               teststar.minor_fwhm, teststar.position_angle)
        moved    == [ teststar EXCEPT
                        !.x_cen = Average(match.x_cen, teststar.x_cen),
                        !.y_cen = Average(match.y_cen, teststar.y_cen),
                        !.major_fwhm = cb[1],
                        !.minor_fwhm = cb[2],
                        !.position_angle = cb[3] ]
    IN  [ s1 EXCEPT ![pos + 1] = FillMasked(moved, match) ]

PositionOf(s, idx) == CHOOSE k \in 0..(Len(s) - 1) : s[k + 1]._index = idx

\* Reindex left out.
KeepIndex(s) == s

\* Line 220: stack['_index'] = range(len(stack))
Reindex(s) == [ k \in 1..Len(s) |-> [ s[k] EXCEPT !._index = k - 1 ] ]

\* BreakCondition with len(stack) - 1 taken once, when the stack is built.
BreakAtInitialBound == i = Len(input) - 1

\* Line 151
BreakCondition == i = Len(stack) - 1

Step(kind, t, m, mpos) ==
    last' = [ kind |-> kind, teststar |-> t, match |-> m, at |-> i,
              match_at |-> mpos ]

\* Lines 151-152 and 215-222: leave the loop, renumber, return the table.
Break ==
    /\ pc = "scan"
    /\ BreakCondition
    /\ stack' = Reindex(stack)
    /\ pc' = "done"
    /\ Step("break", NoRow, NoRow, 0)
    /\ UNCHANGED <<rejected, i, input, crowded>>

\* Lines 154-156
SkipRejected ==
    /\ pc = "scan"
    /\ ~BreakCondition
    /\ i \in rejected
    /\ i' = i + 1
    /\ Step("skip", NoRow, NoRow, 0)
    /\ UNCHANGED <<stack, rejected, pc, input, crowded>>

\* Line 158: stack[i] with i past the end raises IndexError.
RaiseNoRow ==
    /\ pc = "scan"
    /\ ~BreakCondition
    /\ i \notin rejected
    /\ i >= Len(stack)
    /\ pc' = "raised"
    /\ Step("IndexError_row", NoRow, NoRow, 0)
    /\ UNCHANGED <<stack, rejected, i, input, crowded>>

\* Lines 158-173: fewer than WindowSize candidates: delta_p[j] raises.
RaiseWindow ==
    /\ pc = "scan"
    /\ ~BreakCondition
    /\ i \notin rejected
    /\ i < Len(stack)
    /\ RaisesIndexError(DeltaP(stack, stack[i + 1]))
    /\ pc' = "raised"
    /\ Step("IndexError_window", stack[i + 1], NoRow, 0)
    /\ UNCHANGED <<stack, rejected, i, input, crowded>>

\* Lines 158-180, 211: no row of the window is within the threshold.
NoMatch ==
    /\ pc = "scan"
    /\ ~BreakCondition
    /\ i \notin rejected
    /\ i < Len(stack)
    /\ LET dp == DeltaP(stack, stack[i + 1])
       IN  /\ ~RaisesIndexError(dp)
           /\ \E W \in Windows(dp) : ~found_match(W)
    /\ i' = i + 1
    /\ Step("no_match", stack[i + 1], NoRow, 0)
    /\ UNCHANGED <<stack, rejected, pc, input, crowded>>

\* Lines 158-211: a row of the window is within the threshold; merge.
Merge ==
    /\ pc = "scan"
    /\ ~BreakCondition
    /\ i \notin rejected
    /\ i < Len(stack)
    /\ LET dp == DeltaP(stack, stack[i + 1])
       IN  /\ ~RaisesIndexError(dp)
           /\ \E W \in Windows(dp) :
                /\ found_match(W)
                /\ \E d \in Closest(W, dp) :
                     /\ stack' = Merged(stack, i, d._index)
                     /\ Step("merge", stack[i + 1],
                             stack[PositionOf(stack, d._index) + 1],
                             PositionOf(stack, d._index))
    /\ i' = i + 1
    /\ crowded' = crowded \cup Crowded(stack')
    /\ UNCHANGED <<rejected, pc, input>>

Next ==
    \/ Break
    \/ SkipRejected
    \/ RaiseNoRow
    \/ RaiseWindow
    \/ NoMatch
    \/ Merge

Spec == Init /\ [][Next]_vars

\* ------------------------------------------------------------ the claims
Names(s) == { s[k]._name : k \in 1..Len(s) }

RowNamed(s, nm) == s[CHOOSE k \in 1..Len(s) : s[k]._name = nm]

\* Equal in every column but _index.
SameContent(r1, r2) == [ r1 EXCEPT !._index = 0 ] = [ r2 EXCEPT !._index = 0 ]

\* The columns that are neither a position nor a shape column.
PlainColumns == { "_index", "_idx", "_name", "rejected", "flux_a", "flux_b" }

NonRejected(s) == { k \in 1..Len(s) : s[k].rejected = 0 }

MergesDone == Len(input) - Len(stack)

\* C1: after a merge step of test row t with partner p, p is gone, t is
\* still in the stack and holds the averaged centre, p's cell wherever its
\* own was masked and its own earlier cell in every other plain column,
\* wherever p sat relative to t.
C1_MergeFillsTestRow ==
    last.kind = "merge" =>
      LET t == last.teststar
          p == last.match
      IN  /\ p._name \notin Names(stack)
          /\ t._name \in Names(stack)
          /\ LET r == RowNamed(stack, t._name)
             IN  /\ r.x_cen = Average(t.x_cen, p.x_cen)
                 /\ r.y_cen = Average(t.y_cen, p.y_cen)
                 /\ \A c \in PlainColumns :
                      r[c] = IF IsMasked(t, c) THEN p[c] ELSE t[c]

\* The part of C1 the code keeps: the same, for a partner that sits after
\* the test row.
C1_HoldsForLaterPartner ==
    (last.kind = "merge" /\ last.match_at > last.at) =>
      LET t == last.teststar
          p == last.match
          r == stack[last.at + 1]
      IN  /\ p._name \notin Names(stack)
          /\ r._name = t._name
          /\ r.x_cen = Average(t.x_cen, p.x_cen)
          /\ r.y_cen = Average(t.y_cen, p.y_cen)
          /\ \A c \in PlainColumns :
               r[c] = IF IsMasked(t, c) THEN p[c] ELSE t[c]

\* b is one of the first WindowSize candidates of a whatever way ties fall.
InWindowOf(s, a, b) ==
    \A W \in Windows(DeltaP(s, s[a])) :
      \E d \in W : d._index = s[b]._index

\* C2: two non-rejected rows of the stacked input within the threshold of
\* each other and in the same window: the call returns a table, and exactly
\* one of the two is in it.
C2_ClosePairsCollapse ==
    \A a, b \in NonRejected(input) :
      ( /\ a < b
        /\ RowDist2(input[a], input[b]) <= threshold * threshold
        /\ InWindowOf(input, a, b)
        /\ InWindowOf(input, b, a) )
      => /\ pc # "raised"
         /\ pc = "done" =>
              Cardinality({ input[a]._name, input[b]._name } \cap Names(stack)) = 1

\* C3: a rejected row is never the test row of a merge and keeps all its
\* content but _index throughout.
C3_RejectedRowsUntouched ==
    /\ last.kind = "merge" => last.teststar.rejected = 0
    /\ \A k \in 1..Len(input) :
         input[k].rejected = 1 =>
           /\ input[k]._name \in Names(stack)
           /\ SameContent(RowNamed(stack, input[k]._name), input[k])

\* C4: the row a merge removes is never a rejected one, and the stack
\* holds as many rejected rows as the two inputs together, at every step
\* and in the returned table.
C4_RejectedNeverRemoved ==
    /\ last.kind = "merge" => last.match.rejected = 0
    /\ Cardinality({ k \in 1..Len(stack) : stack[k].rejected = 1 })
         = Cardinality({ k \in 1..Len(input) : input[k].rejected = 1 })

\* The returned table, after a merge, holds a rejected row that lies within
\* the threshold of a non-rejected row.
C4_Witness ==
    /\ pc = "done"
    /\ MergesDone > 0
    /\ \E k, h \in 1..Len(stack) :
         /\ stack[k].rejected = 1
         /\ stack[h].rejected = 0
         /\ RowDist2(stack[k], stack[h]) <= threshold * threshold

\* C5: a non-rejected input row that never had another non-rejected row
\* within the threshold is in the returned table with unchanged content.
C5_LonelyRowsUnchanged ==
    pc = "done" =>
      \A k \in NonRejected(input) :
        input[k]._name \notin crowded =>
          /\ input[k]._name \in Names(stack)
          /\ SameContent(RowNamed(stack, input[k]._name), input[k])

\* The non-rejected rows of the stack other than the one at position pos.
OtherCandidates(s, pos) == { k \in NonRejected(s) : k # pos + 1 }

\* A test row is about to be examined: the pass neither breaks nor skips.
Examining ==
    /\ pc = "scan"
    /\ i # Len(stack) - 1
    /\ i \notin rejected
    /\ i < Len(stack)

\* C6: a pass that examines a test row while fewer than WindowSize other
\* non-rejected rows are in the stack ends the call with IndexError: the
\* stack is left as it was and no table is returned.
C6_TooFewCandidatesRaise ==
    [][ ( /\ Examining
          /\ Cardinality(OtherCandidates(stack, i)) < WindowSize )
        => ( /\ pc' = "raised"
             /\ last'.kind = "IndexError_window"
             /\ stack' = stack ) ]_vars

\* The call raised for want of candidates only after a merge: the input
\* gave every row its WindowSize candidates.
C6_Witness ==
    /\ pc = "raised"
    /\ last.kind = "IndexError_window"
    /\ MergesDone > 0
    /\ Cardinality(NonRejected(input)) > WindowSize

\* C7: at the top of every pass the scan position is at most
\* len(stack) - 1, so stack[i] is never read past the end and the loop ends
\* through its break.
C7_ScanPositionInBounds ==
    /\ pc = "scan" => i <= Len(stack) - 1
    /\ last.kind # "IndexError_row"

\* The squared distance from the test row t of the row at index k of s.
DistFrom(s, t, k) == RowDist2(s[k], t)

\* C8 as claimed: the partner of a merge is the candidate at the least
\* distance from the test row among ALL non-rejected candidates.
C8_PartnerGloballyClosest ==
    [][ last'.kind = "merge" =>
          \A k \in OtherCandidates(stack, i) :
            RowDist2(last'.match, stack[i + 1]) <= DistFrom(stack, stack[i + 1], k)
      ]_vars

\* The number of candidates of the test row at position pos whose |dx| is
\* smaller than (strict) or at most (not strict) that of the row at index k.
DxRank(s, pos, k, strict) ==
    Cardinality({ h \in OtherCandidates(s, pos) \ {k} :
      IF strict
      THEN Abs(s[h].x_cen - s[pos + 1].x_cen) < Abs(s[k].x_cen - s[pos + 1].x_cen)
      ELSE Abs(s[h].x_cen - s[pos + 1].x_cen) <= Abs(s[k].x_cen - s[pos + 1].x_cen) })

\* C8 as the code has it: the partner is within the threshold, is one of
\* the WindowSize candidates of smallest |dx|, and no candidate that is
\* surely among those is closer; a closer candidate outside them is passed
\* over.
C8_PartnerClosestInWindow ==
    [][ last'.kind = "merge" =>
          LET t  == stack[i + 1]
              m  == last'.match_at + 1
          IN  /\ m \in OtherCandidates(stack, i)
              /\ stack[m] = last'.match
              /\ DistFrom(stack, t, m) <= threshold * threshold
              /\ DxRank(stack, i, m, TRUE) < WindowSize
              /\ \A k \in OtherCandidates(stack, i) :
                   DistFrom(stack, t, k) < DistFrom(stack, t, m)
                     => DxRank(stack, i, k, FALSE) >= WindowSize
      ]_vars

\* A merge was made although a non-rejected row other than the partner was
\* closer to the test row than the partner.
C8_Witness ==
    /\ last.kind = "merge"
    /\ last.match_at > last.at
    /\ \E k \in NonRejected(stack) :
         /\ stack[k]._name # last.teststar._name
         /\ RowDist2(stack[k], last.teststar)
              < RowDist2(last.match, last.teststar)

\* C9 as claimed: the loop breaks at i = N - 1 for the N rows the stack
\* was built with.
C9_BreaksAtInitialBound ==
    pc = "done" => i = Len(input) - 1

\* C9 as the code has it: len(stack) is read anew in every pass; the
\* loop breaks in exactly the pass where i = len(stack) - 1 for the stack
\* as it is then.
C9_BreaksAtCurrentBound ==
    [][ pc = "scan" => ((pc' = "done") <=> (i = Len(stack) - 1)) ]_vars

\* The loop broke below the initial bound, after merges shortened the stack.
C9_Witness ==
    /\ pc = "done"
    /\ MergesDone > 0
    /\ i = Len(input) - 1 - MergesDone

IndexSet(s) == { s[k]._index : k \in 1..Len(s) }

\* C10 as claimed: at every pass and in the returned table the _index
\* values are distinct and are exactly 0 .. len(stack)-1.
C10_IndexDense ==
    /\ Cardinality(IndexSet(stack)) = Len(stack)
    /\ IndexSet(stack) = 0..(Len(stack) - 1)

\* C10 as the code has it: the _index values are distinct at every pass;
\* they are 0 .. len(stack)-1 in order until the first merge and again in
\* the returned table, and in between they are the initial values less
\* those of the removed rows.
C10_IndexDistinctThenDense ==
    /\ Cardinality(IndexSet(stack)) = Len(stack)
    /\ IndexSet(stack) \subseteq 0..(Len(input) - 1)
    /\ (pc = "done" \/ MergesDone = 0) =>
         \A k \in 1..Len(stack) : stack[k]._index = k - 1

\* A table was returned after at least one merge.
C10_Witness ==
    /\ pc = "done"
    /\ MergesDone > 0
    /\ \A k \in 1..Len(stack) : stack[k]._index = k - 1
    /\ \E k \in 1..Len(stack) : stack[k]._name # k - 1

====
